---- MODULE Spec2Model ----
(***************************************************************************)
(* The peer-connection signaling and negotiation core of the video-call    *)
(* client:                                                                 *)
(*   - the mesh negotiator, hook useWebRTC (src/src/hooks/use-webrtc.ts).  *)
(*     MeshSpec runs one client against remote users played by the         *)
(*     environment; PairSpec runs two clients against each other over the  *)
(*     signaling relay;                                                    *)
(*   - the SFU session, class SFUClient (src/src/lib/webrtc-sfu.ts), one   *)
(*     client against the signaling server: SfuSpec.                       *)
(* The mesh and the SFU halves share no state.                             *)
(***************************************************************************)
EXTENDS Integers, Sequences, FiniteSets, TLC

\* ---------------------------------------------------------------- bounds
MaxConns == 2          \* RTCPeerConnection objects ever created, all clients
MaxPairConns == 4      \* the same, in the scenario of two clients that negotiate with
                       \* each other (one offer and one answer per client)
MaxInbox == 4          \* envelopes the relay holds for one client

\* ------------------------------------------------------------- universes
Users == {"A", "B", "C"}        \* user ids that rosters may hold
Clients == {"A", "B"}           \* users whose browser may run the hook
RoomIds == {"r1", "r2"}
NoRoom == [id |-> "none", participants |-> {}]      \* currentRoom === null
NoDesc == -1                    \* remoteDescription === null
Foreign == 0                    \* a description made by a connection of a remote browser outside the model

VARIABLES
    online,        \* the clients whose hook runs; the other users are played by the environment
    currentRoom,   \* [Clients -> room]: useRoomStore().currentRoom
    peers,         \* [Clients -> registry]: the React state `peers`
    peersView,     \* [Clients -> registry]: `peers` as captured by the callbacks of the last render
    timer,         \* [Clients -> BOOLEAN]: the 1000 ms timer of the connect effect is armed
    localStream,   \* [Clients -> BOOLEAN]: localStreamRef.current !== null
    isConnecting,  \* [Clients -> BOOLEAN]
    connectCalled, \* [Clients -> BOOLEAN]: connectToAllParticipants has run for the current roster (history)
    conns,         \* Seq(connection record): every RTCPeerConnection created, by creation order
    inbox          \* [Clients -> Seq(envelope)]: what the signaling relay holds for each client, in order

meshVars == <<online, currentRoom, peers, peersView, timer, localStream, isConnecting,
              connectCalled, conns, inbox>>

\* --------------------------------------------------------------- helpers
Put(f, k, v) == [x \in (DOMAIN f) \cup {k} |-> IF x = k THEN v ELSE f[x]]
Del(f, k) == [x \in (DOMAIN f) \ {k} |-> f[x]]
EmptyMap == [x \in {} |-> 0]

\* participantId of every roster entry ('userId' in p ? p.userId : p.id)
ParticipantIds(room) == room.participants

\* new RTCPeerConnection(RTC_CONFIG) with the local tracks attached
createPeerConnection(u, peerId, role, offerSdp, offerMedia) ==
    [owner    |-> u,
     peerId   |-> peerId,
     role     |-> role,                    \* "offer": made by createOffer, "answer": by handleOffer
     room     |-> currentRoom[u].id,       \* currentRoom of the closure that made it
     tracks   |-> localStream[u],          \* addTrack of every local track
     sig      |-> "new",                   \* signalingState; "new" is stable with no description
     offerSdp |-> offerSdp,                \* the offer an answerer is still to apply
     offerMedia |-> offerMedia,            \* whether that offer sends tracks
     remote   |-> NoDesc,                  \* whose description is the remote description
     pc       |-> "await",                 \* the async function that made it: await | sent | error
     state    |-> "new",                   \* connectionState: new | connected | failed
     closed   |-> FALSE,
     cands    |-> FALSE,                   \* a remote candidate was added
     stopped  |-> FALSE]                   \* the remote stream's tracks were stopped

Entry(c, hasStream) == [conn |-> c, stream |-> hasStream]

\* {to, from, offer|answer|candidate, roomId}; the payload is named by the connection
\* that generated it, media says whether that description sends tracks
Envelope(kind, from, to, roomId, sdp, media) ==
    [kind |-> kind, from |-> from, to |-> to, roomId |-> roomId, sdp |-> sdp, media |-> media]

\* socketService.sendWebRTC*: the relay queues the envelope for its addressee
Send(box, m) ==
    IF m.to \in online /\ m.to # m.from
    THEN [box EXCEPT ![m.to] = Append(@, m)]
    ELSE box

\* room for a description and its candidate
CanSend(from, to) == to \in online /\ to # from => Len(inbox[to]) + 2 <= MaxInbox

\* peerConnection.onicecandidate: the candidate gathered once the local description is set
\* goes to the owning peer, tagged with the room of the closure (one candidate per connection,
\* sent right behind the description)
LocalIceCandidate(box, c) ==
    Send(box, Envelope("ice-candidate", conns[c].owner, conns[c].peerId, conns[c].room, c, FALSE))

\* ------------------------------------------------------- SFU session: state
\* One SFUClient (webrtc-sfu.ts) and the signaling server. What the client emits waits in
\* `outbox`, in order, until the server takes it; the server's answer runs the client's
\* listener in the same step. Objects of the media library (transports, producers, streams)
\* live in sequences and are named by their index, Null for none.

MaxTransports == 2     \* Transport objects ever created
MaxProducers == 3      \* Producer objects ever created
MaxStreams == 3        \* getUserMedia streams ever obtained
MaxOutbox == 2         \* emitted messages the server has not taken yet

Null == 0
Kinds == {"video", "audio"}
Directions == {"send", "recv"}
RouterKinds == {Kinds, {"audio"}}   \* what the router's capabilities let the device produce
ProducerIds == {"p1"}            \* ids of remote producers the server announces
ConsumerIds == {"c1", "c2"}      \* ids of consumers the server names
PeerIds == {"peerX"}             \* producerPeerId of server events

VARIABLES
    socket,             \* socketService.getSocket() !== null (at construction and after)
    deviceLoaded,       \* this.device.loaded
    canProduce,         \* the kinds device.canProduce() accepts once loaded
    transports,         \* Seq([direction, ready, state, closed]): Transport objects by creation
    sendTransport,      \* this.sendTransport: index into transports, or Null
    recvTransport,      \* this.recvTransport
    producers,          \* Seq([kind, transport, track, paused, closed]): Producer objects
    producer,           \* this.producer
    consumers,          \* this.consumers: consumerId -> consumer
    remoteParticipants, \* this.remoteParticipants: peerId -> [consumer]
    streams,            \* Seq([stopped]): getUserMedia streams by creation; their tracks stopped
    trackEnabled,       \* [video, audio]: track.enabled of the tracks of this.localStream
    sfuLocalStream,     \* this.localStream: index into streams, or Null
    isConnected,        \* this.isConnected
    reported,           \* last state given to onConnectionStateChange
    calls,              \* the produce() calls in flight: [stream, pc (kind), stage, t (transport)]
    outbox,             \* Seq(message): emitted, not yet taken by the server
    joined,             \* the server has taken an sfu:join-room
    served              \* consumerId -> producerPeerId: the consumers the server made for
                        \* this client and has not closed

sfuVars == <<socket, deviceLoaded, canProduce, transports, sendTransport, recvTransport,
             producers, producer, consumers, remoteParticipants, streams, trackEnabled,
             sfuLocalStream, isConnected, reported, calls, outbox, joined, served>>

vars == <<meshVars, sfuVars>>

\* socketService.getSocket()?.emit(event, data)
Emit(box, m) == IF socket THEN Append(box, m) ELSE box

\* an emitted event with its payload: a name (direction, kind, id) and the pause flag
Msg(event, arg, pause) == [event |-> event, arg |-> arg, pause |-> pause]

\* fresh tracks are enabled
AllEnabled == [video |-> TRUE, audio |-> TRUE]

\* the session as constructed: new Device(), nothing created
SfuFresh ==
    /\ deviceLoaded = FALSE
    /\ canProduce = {}
    /\ transports = <<>>
    /\ sendTransport = Null
    /\ recvTransport = Null
    /\ producers = <<>>
    /\ producer = Null
    /\ consumers = EmptyMap
    /\ remoteParticipants = EmptyMap
    /\ streams = <<>>
    /\ trackEnabled = AllEnabled
    /\ sfuLocalStream = Null
    /\ isConnected = FALSE
    /\ reported = "none"
    /\ calls = {}
    /\ outbox = <<>>
    /\ joined = FALSE
    /\ served = EmptyMap

\* no SFUClient is constructed
SfuIdle == socket = FALSE /\ SfuFresh

\* ------------------------------------------------------------ mesh: Init
\* the rooms a client may be in: "r1" with a roster that holds the client itself
\* (rosters that differ only by a renaming of the other users are taken once)
Rosters(u) == {Clients, Users}
Rooms(u) == {[id |-> "r1", participants |-> S] : S \in Rosters(u)}

MeshInit ==
    /\ online = {"A"}
    /\ currentRoom \in {f \in [Clients -> UNION {Rooms(u) : u \in Clients} \cup {NoRoom}] :
                          /\ f["A"] = NoRoom \/ f["A"] \in Rooms("A")
                          /\ f["B"] = NoRoom}
    /\ peers = [u \in Clients |-> EmptyMap]
    /\ peersView = [u \in Clients |-> EmptyMap]
    /\ timer = [u \in Clients |-> currentRoom[u] # NoRoom]
    /\ localStream \in {f \in [Clients -> BOOLEAN] : ~f["B"]}
    /\ isConnecting = [u \in Clients |-> FALSE]
    /\ connectCalled = [u \in Clients |-> FALSE]
    /\ conns = <<>>
    /\ inbox = [u \in Clients |-> <<>>]
    /\ SfuIdle

\* --------------------------------------------------------- mesh: actions

\* new RTCPeerConnection(...) is possible while fewer connections than this were made
ConnLimit == IF online = Clients THEN MaxPairConns ELSE MaxConns

\* createOffer up to its first await: the connection is made and stored, nothing is checked
CreateOfferSync(cs, reg, u, p) ==
    [conns |-> Append(cs, createPeerConnection(u, p, "offer", NoDesc, FALSE)),
     reg   |-> Put(reg, p, Entry(Len(cs) + 1, FALSE))]

\* the exported createOffer(targetUserId, targetUser)
CreateOffer(u, p) ==
    /\ currentRoom[u] # NoRoom
    /\ Len(conns) < ConnLimit
    /\ LET r == CreateOfferSync(conns, peers[u], u, p) IN
        /\ conns' = r.conns
        /\ peers' = [peers EXCEPT ![u] = r.reg]
    /\ isConnecting' = [isConnecting EXCEPT ![u] = TRUE]
    /\ UNCHANGED <<online, currentRoom, peersView, timer, localStream, connectCalled, inbox>>

\* createOffer after its awaits: createOffer(), setLocalDescription(offer), sendWebRTCOffer
OfferContinue(c) ==
    /\ c \in 1..Len(conns)
    /\ conns[c].role = "offer" /\ conns[c].pc = "await"
    /\ LET k == conns[c] IN
        IF k.closed
        THEN \* createOffer() rejects on a closed connection; caught and logged
             /\ conns' = [conns EXCEPT ![c].pc = "error"]
             /\ inbox' = inbox
        ELSE /\ CanSend(k.owner, k.peerId)
             /\ conns' = [conns EXCEPT ![c].pc = "sent", ![c].sig = "have-local-offer"]
             /\ inbox' = LocalIceCandidate(
                            Send(inbox, Envelope("offer", k.owner, k.peerId, k.room, c, k.tracks)), c)
    /\ isConnecting' = [isConnecting EXCEPT ![conns[c].owner] = FALSE]
    /\ UNCHANGED <<online, currentRoom, peers, peersView, timer, localStream, connectCalled>>

\* createOffer after its awaits with the signaling socket not ready: the offer is made and
\* set, and sendWebRTCOffer (like sendWebRTCIceCandidate) returns at `if (!this.isReady())`
\* without emitting and without telling the caller
OfferDropped(c) ==
    /\ c \in 1..Len(conns)
    /\ conns[c].role = "offer" /\ conns[c].pc = "await"
    /\ ~conns[c].closed
    /\ conns' = [conns EXCEPT ![c].pc = "dropped", ![c].sig = "have-local-offer"]
    /\ isConnecting' = [isConnecting EXCEPT ![conns[c].owner] = FALSE]
    /\ UNCHANGED <<online, currentRoom, peers, peersView, timer, localStream, connectCalled, inbox>>

\* peerConnection.ontrack: the entry of this connection's peer becomes this connection with its stream
OnTrack(reg, c, peerId) == Put(reg, peerId, Entry(c, TRUE))

\* handleOffer with the room comparison left out (fault seeded for C4)
HandleOfferAnyRoom(u, m) ==
    /\ m.kind = "offer"
    /\ IF currentRoom[u] = NoRoom
       THEN UNCHANGED <<conns, peers>>
       ELSE IF m.from \notin ParticipantIds(currentRoom[u])
       THEN UNCHANGED <<conns, peers>>
       ELSE /\ Len(conns) < ConnLimit
            /\ conns' = Append(conns, createPeerConnection(u, m.from, "answer", m.sdp, m.media))
            /\ peers' = [peers EXCEPT ![u] = Put(@, m.from, Entry(Len(conns) + 1, FALSE))]

\* handleOffer with a tie-break: the client with the larger id drops an offer from a peer it
\* has itself offered to and not yet heard from (fault seeded for C20)
HandleOfferYielding(u, m) ==
    /\ m.kind = "offer"
    /\ IF currentRoom[u] = NoRoom \/ m.roomId # currentRoom[u].id
       THEN UNCHANGED <<conns, peers>>
       ELSE IF m.from \notin ParticipantIds(currentRoom[u])
       THEN UNCHANGED <<conns, peers>>
       ELSE IF /\ u = "B"
               /\ \E c \in 1..Len(conns) :
                      /\ conns[c].owner = u /\ conns[c].peerId = m.from
                      /\ conns[c].role = "offer" /\ conns[c].sig = "have-local-offer"
       THEN UNCHANGED <<conns, peers>>
       ELSE /\ Len(conns) < ConnLimit
            /\ conns' = Append(conns, createPeerConnection(u, m.from, "answer", m.sdp, m.media))
            /\ peers' = [peers EXCEPT ![u] = Put(@, m.from, Entry(Len(conns) + 1, FALSE))]

\* handleOffer up to its first await
HandleOffer(u, m) ==
    /\ m.kind = "offer"
    /\ IF currentRoom[u] = NoRoom \/ m.roomId # currentRoom[u].id
       THEN UNCHANGED <<conns, peers>>
       ELSE IF m.from \notin ParticipantIds(currentRoom[u])
       THEN UNCHANGED <<conns, peers>>       \* 'Offer sender not found in room participants'
       ELSE /\ Len(conns) < ConnLimit
            /\ conns' = Append(conns, createPeerConnection(u, m.from, "answer", m.sdp, m.media))
            /\ peers' = [peers EXCEPT ![u] = Put(@, m.from, Entry(Len(conns) + 1, FALSE))]

\* handleOffer after its awaits: setRemoteDescription(offer), createAnswer(),
\* setLocalDescription(answer), sendWebRTCAnswer
AnswerContinue(c) ==
    /\ c \in 1..Len(conns)
    /\ conns[c].role = "answer" /\ conns[c].pc = "await"
    /\ LET k == conns[c] IN
        IF k.closed
        THEN /\ conns' = [conns EXCEPT ![c].pc = "error"]
             /\ UNCHANGED <<inbox, peers>>
        ELSE /\ CanSend(k.owner, k.peerId)
             /\ conns' = [conns EXCEPT ![c].pc = "sent", ![c].sig = "stable",
                                       ![c].remote = k.offerSdp]
             /\ peers' = IF k.offerMedia
                         THEN [peers EXCEPT ![k.owner] = OnTrack(@, c, k.peerId)]
                         ELSE peers
             /\ inbox' = LocalIceCandidate(
                            Send(inbox, Envelope("answer", k.owner, k.peerId, k.room, c, k.tracks)), c)
    /\ UNCHANGED <<online, currentRoom, peersView, timer, localStream, isConnecting, connectCalled>>

\* handleAnswer looking the connection up under the addressee instead of the sender
\* (fault seeded for C5)
HandleAnswerWrongKey(u, m) ==
    /\ m.kind = "answer"
    /\ IF currentRoom[u] = NoRoom \/ m.roomId # currentRoom[u].id
       THEN UNCHANGED <<conns, peers>>
       ELSE IF m.to \notin DOMAIN peersView[u]
       THEN UNCHANGED <<conns, peers>>
       ELSE LET c == peersView[u][m.to].conn IN
            IF conns[c].closed \/ conns[c].sig # "have-local-offer"
            THEN UNCHANGED <<conns, peers>>
            ELSE /\ conns' = [conns EXCEPT ![c].sig = "stable", ![c].remote = m.sdp]
                 /\ peers' = IF m.media
                             THEN [peers EXCEPT ![u] = OnTrack(@, c, conns[c].peerId)]
                             ELSE peers

\* handleAnswer over a connection that takes the answer, and fires its track event, even
\* after close() (fault seeded for C28)
HandleAnswerAfterClose(u, m) ==
    /\ m.kind = "answer"
    /\ IF currentRoom[u] = NoRoom \/ m.roomId # currentRoom[u].id
       THEN UNCHANGED <<conns, peers>>
       ELSE IF m.from \notin DOMAIN peersView[u]
       THEN UNCHANGED <<conns, peers>>
       ELSE LET c == peersView[u][m.from].conn IN
            IF conns[c].sig # "have-local-offer"
            THEN UNCHANGED <<conns, peers>>
            ELSE /\ conns' = [conns EXCEPT ![c].sig = "stable", ![c].remote = m.sdp]
                 /\ peers' = IF m.media
                             THEN [peers EXCEPT ![u] = OnTrack(@, c, conns[c].peerId)]
                             ELSE peers

\* handleAnswer: the answer goes to the connection the captured `peers` holds for the sender
HandleAnswer(u, m) ==
    /\ m.kind = "answer"
    /\ IF currentRoom[u] = NoRoom \/ m.roomId # currentRoom[u].id
       THEN UNCHANGED <<conns, peers>>
       ELSE IF m.from \notin DOMAIN peersView[u]
       THEN UNCHANGED <<conns, peers>>
       ELSE LET c == peersView[u][m.from].conn IN
            IF conns[c].closed \/ conns[c].sig # "have-local-offer"
            THEN UNCHANGED <<conns, peers>>      \* setRemoteDescription rejects; caught
            ELSE /\ conns' = [conns EXCEPT ![c].sig = "stable", ![c].remote = m.sdp]
                 /\ peers' = IF m.media
                             THEN [peers EXCEPT ![u] = OnTrack(@, c, conns[c].peerId)]
                             ELSE peers

\* handleIceCandidate
HandleIceCandidate(u, m) ==
    /\ m.kind = "ice-candidate"
    /\ peers' = peers
    /\ IF currentRoom[u] = NoRoom \/ m.roomId # currentRoom[u].id
       THEN conns' = conns
       ELSE IF m.from \notin DOMAIN peersView[u]
       THEN conns' = conns
       ELSE LET c == peersView[u][m.from].conn IN
            IF conns[c].closed \/ conns[c].remote = NoDesc
            THEN conns' = conns                  \* addIceCandidate rejects; caught
            ELSE conns' = [conns EXCEPT ![c].cands = TRUE]

\* socketService.on('webrtc:offer' | 'webrtc:answer' | 'webrtc:ice-candidate'): the handler
\* of the envelope's kind runs
Handle(u, m) ==
    /\ \/ HandleOffer(u, m)
       \/ HandleAnswer(u, m)
       \/ HandleIceCandidate(u, m)
    /\ UNCHANGED <<online, currentRoom, peersView, timer, localStream, isConnecting, connectCalled>>

\* the relay delivers the next envelope it holds for u
Deliver(u) ==
    /\ inbox[u] # <<>>
    /\ inbox' = [inbox EXCEPT ![u] = Tail(@)]
    /\ Handle(u, Head(inbox[u]))

\* the envelopes a remote user outside the model may send to u through the relay;
\* its descriptions carry tracks
RemoteEnvelopes(u) ==
    {Envelope(k, f, u, r, Foreign, k # "ice-candidate") :
        k \in {"offer", "answer", "ice-candidate"}, f \in Users \ online, r \in RoomIds}

\* u receives an envelope of a remote user outside the model
Receive(u, m) ==
    /\ inbox' = inbox
    /\ Handle(u, m)

\* both ends hold each other's description (a remote browser outside the model always does)
Paired(c) ==
    /\ conns[c].sig = "stable"
    /\ \/ conns[c].remote = Foreign
       \/ /\ conns[c].remote \in 1..Len(conns)
          /\ conns[conns[c].remote].remote = c
          /\ conns[conns[c].remote].sig = "stable"
          /\ ~conns[conns[c].remote].closed

\* connectionState becomes 'connected' (logged only)
ConnectionConnected(c) ==
    /\ c \in 1..Len(conns)
    /\ ~conns[c].closed /\ conns[c].state = "new" /\ Paired(c)
    /\ conns' = [conns EXCEPT ![c].state = "connected"]
    /\ UNCHANGED <<online, currentRoom, peers, peersView, timer, localStream, isConnecting,
                   connectCalled, inbox>>

\* the cleanup both removePeer and the failed-state handler run inside setPeers:
\* close the connection the registry holds for peerId, stop its stream, drop the entry
CloseEntry(cs, reg, peerId) ==
    IF peerId \in DOMAIN reg
    THEN [cs EXCEPT ![reg[peerId].conn].closed = TRUE,
                    ![reg[peerId].conn].stopped = @ \/ reg[peerId].stream]
    ELSE cs

\* the failed-state handler dropping the entry without closing its connection or stopping
\* its stream (fault seeded for C15)
ConnectionFailedNoClose(c) ==
    /\ c \in 1..Len(conns)
    /\ ~conns[c].closed /\ conns[c].sig # "new" /\ conns[c].state # "failed"
    /\ conns' = [conns EXCEPT ![c].state = "failed"]
    /\ peers' = [peers EXCEPT ![conns[c].owner] = Del(@, conns[c].peerId)]
    /\ UNCHANGED <<online, currentRoom, peersView, timer, localStream, isConnecting, connectCalled, inbox>>

\* the failed-state handler tearing the whole registry down: every registered connection of
\* the client is closed and every entry dropped (fault seeded for C25)
ConnectionFailedDropsAll(c) ==
    /\ c \in 1..Len(conns)
    /\ ~conns[c].closed /\ conns[c].sig # "new" /\ conns[c].state # "failed"
    /\ LET k == conns[c]
           held == {peers[k.owner][q].conn : q \in DOMAIN peers[k.owner]} IN
        /\ conns' = [d \in 1..Len(conns) |->
                        IF d \in held \/ d = c
                        THEN [conns[d] EXCEPT !.closed = (d \in held \/ @),
                                              !.state = IF d = c THEN "failed" ELSE @]
                        ELSE conns[d]]
        /\ peers' = [peers EXCEPT ![k.owner] = EmptyMap]
    /\ UNCHANGED <<online, currentRoom, peersView, timer, localStream, isConnecting, connectCalled, inbox>>

\* peerConnection.onconnectionstatechange with connectionState 'failed'
ConnectionFailed(c) ==
    /\ c \in 1..Len(conns)
    /\ ~conns[c].closed /\ conns[c].sig # "new" /\ conns[c].state # "failed"
    /\ LET k == conns[c] IN
        /\ conns' = CloseEntry([conns EXCEPT ![c].state = "failed"], peers[k.owner], k.peerId)
        /\ peers' = [peers EXCEPT ![k.owner] = Del(@, k.peerId)]
    /\ UNCHANGED <<online, currentRoom, peersView, timer, localStream, isConnecting, connectCalled, inbox>>

\* the exported removePeer(peerId)
RemovePeer(u, p) ==
    /\ p \in DOMAIN peers[u]
    /\ conns' = CloseEntry(conns, peers[u], p)
    /\ peers' = [peers EXCEPT ![u] = Del(@, p)]
    /\ UNCHANGED <<online, currentRoom, peersView, timer, localStream, isConnecting, connectCalled, inbox>>

\* setLocalStream(stream): the ref is set and the tracks are added to every connection of
\* the captured `peers`; addTrack throws on a closed connection and nothing catches it
SetLocalStream(u, s) ==
    /\ localStream' = [localStream EXCEPT ![u] = s]
    /\ LET held   == {peersView[u][p].conn : p \in DOMAIN peersView[u]}
           open   == {c \in held : ~conns[c].closed}
           throws == s /\ open # held
       IN \E reached \in SUBSET open :
             /\ ~throws => reached = open            \* forEach stops at the first throw
             /\ conns' = [c \in 1..Len(conns) |->
                             IF s /\ c \in reached
                             THEN [conns[c] EXCEPT !.tracks = TRUE] ELSE conns[c]]
    /\ UNCHANGED <<online, currentRoom, peers, peersView, timer, isConnecting, connectCalled, inbox>>

\* a render commits the `peers` state: the callbacks are recreated over it, and the connect
\* effect (video-call.tsx), which depends on connectToAllParticipants, re-arms its timer
Render(u) ==
    /\ peersView[u] # peers[u]
    /\ peersView' = [peersView EXCEPT ![u] = peers[u]]
    /\ timer' = [timer EXCEPT ![u] = currentRoom[u] # NoRoom]
    /\ UNCHANGED <<online, currentRoom, peers, localStream, isConnecting, connectCalled,
                   conns, inbox>>

\* the participants connectToAllParticipants calls createOffer for
ConnectTargets(u) ==
    {p \in ParticipantIds(currentRoom[u]) : p # u /\ p \notin DOMAIN peersView[u]}

RECURSIVE OfferAll(_, _, _, _)
OfferAll(cs, reg, u, T) ==
    IF T = {} THEN [conns |-> cs, reg |-> reg]
    ELSE LET p == CHOOSE x \in T : TRUE
             r == CreateOfferSync(cs, reg, u, p)
         IN OfferAll(r.conns, r.reg, u, T \ {p})

\* the exported connectToAllParticipants(), over the `peers` its closure captured
ConnectToAllParticipants(u) ==
    /\ currentRoom[u] # NoRoom
    /\ Len(conns) + Cardinality(ConnectTargets(u)) <= ConnLimit
    /\ LET r == OfferAll(conns, peers[u], u, ConnectTargets(u)) IN
        /\ conns' = r.conns
        /\ peers' = [peers EXCEPT ![u] = r.reg]
    /\ isConnecting' = [isConnecting EXCEPT ![u] = @ \/ ConnectTargets(u) # {}]
    /\ connectCalled' = [connectCalled EXCEPT ![u] = TRUE]
    /\ UNCHANGED <<online, currentRoom, peersView, localStream, inbox>>

\* the 1000 ms timer of the connect effect fires and calls connectToAllParticipants
ConnectTimer(u) ==
    /\ timer[u]
    /\ timer' = [timer EXCEPT ![u] = FALSE]
    /\ ConnectToAllParticipants(u)

\* a caller that holds the hook's result calls connectToAllParticipants itself
ConnectCall(u) ==
    /\ timer' = timer
    /\ ConnectToAllParticipants(u)

MeshNext ==
    \/ \E u \in online : \E p \in Users \ {u} : CreateOffer(u, p) /\ UNCHANGED sfuVars
    \/ \E c \in 1..MaxConns : OfferContinue(c) /\ UNCHANGED sfuVars
    \/ \E c \in 1..MaxConns : AnswerContinue(c) /\ UNCHANGED sfuVars
    \/ \E u \in online : \E m \in RemoteEnvelopes(u) : Receive(u, m) /\ UNCHANGED sfuVars
    \/ \E c \in 1..MaxConns : ConnectionConnected(c) /\ UNCHANGED sfuVars
    \/ \E c \in 1..MaxConns : ConnectionFailed(c) /\ UNCHANGED sfuVars
    \/ \E u \in online, p \in Users : RemovePeer(u, p) /\ UNCHANGED sfuVars
    \/ \E u \in online, s \in BOOLEAN : SetLocalStream(u, s) /\ UNCHANGED sfuVars
    \/ \E u \in online : Render(u) /\ UNCHANGED sfuVars
    \/ \E u \in online : ConnectTimer(u) /\ UNCHANGED sfuVars
    \/ \E u \in online : ConnectCall(u) /\ UNCHANGED sfuVars

MeshSpec == MeshInit /\ [][MeshNext]_vars

\* ------------------------------------------------- mesh: two-client scenario
\* Two clients in the same room, each listing the other, negotiate over the relay: no
\* connection fails, nobody calls the exported operations, the local track sets are fixed.
PairInit ==
    /\ online = Clients
    /\ currentRoom = [u \in Clients |-> [id |-> "r1", participants |-> Clients]]
    /\ peers = [u \in Clients |-> EmptyMap]
    /\ peersView = [u \in Clients |-> EmptyMap]
    /\ timer = [u \in Clients |-> TRUE]
    /\ localStream \in [Clients -> BOOLEAN]
    /\ isConnecting = [u \in Clients |-> FALSE]
    /\ connectCalled = [u \in Clients |-> FALSE]
    /\ conns = <<>>
    /\ inbox = [u \in Clients |-> <<>>]
    /\ SfuIdle

\* an envelope that took a network round trip finds the render of the earlier setPeers committed
PairDeliver(u) ==
    /\ peersView[u] = peers[u]
    /\ Deliver(u)

PairNext ==
    \/ \E c \in 1..MaxPairConns : OfferContinue(c) /\ UNCHANGED sfuVars
    \/ \E c \in 1..MaxPairConns : AnswerContinue(c) /\ UNCHANGED sfuVars
    \/ \E u \in Clients : PairDeliver(u) /\ UNCHANGED sfuVars
    \/ \E c \in 1..MaxPairConns : ConnectionConnected(c) /\ UNCHANGED sfuVars
    \/ \E u \in Clients : Render(u) /\ UNCHANGED sfuVars
    \/ \E u \in Clients : ConnectTimer(u) /\ UNCHANGED sfuVars

PairFairness ==
    /\ \A c \in 1..MaxPairConns : WF_vars(OfferContinue(c) /\ UNCHANGED sfuVars)
    /\ \A c \in 1..MaxPairConns : WF_vars(AnswerContinue(c) /\ UNCHANGED sfuVars)
    /\ \A c \in 1..MaxPairConns : WF_vars(ConnectionConnected(c) /\ UNCHANGED sfuVars)
    /\ \A u \in Clients : WF_vars(PairDeliver(u) /\ UNCHANGED sfuVars)
    /\ \A u \in Clients : WF_vars(Render(u) /\ UNCHANGED sfuVars)
    /\ \A u \in Clients : WF_vars(ConnectTimer(u) /\ UNCHANGED sfuVars)

PairSpec == PairInit /\ [][PairNext]_vars /\ PairFairness

\* ------------------------------------------- mesh: the hook inside the call view
\* The hook as the VideoCall component drives it: the component calls setLocalStream and
\* arms the connect timer, nothing calls createOffer or removePeer, the room layer changes
\* the roster, and the user may leave.

\* the connect effect after a change of currentRoom: its timer is armed anew over the roster
RosterChanged(u, roster) ==
    /\ currentRoom' = [currentRoom EXCEPT ![u].participants = roster]
    /\ timer' = [timer EXCEPT ![u] = TRUE]
    /\ connectCalled' = [connectCalled EXCEPT ![u] = FALSE]
    /\ UNCHANGED <<online, peers, peersView, localStream, isConnecting, conns, inbox>>

\* 'room:user-joined' / 'user-joined': the store adds the participant to the roster
AddParticipant(u, p) ==
    /\ currentRoom[u] # NoRoom
    /\ p \notin ParticipantIds(currentRoom[u])
    /\ RosterChanged(u, ParticipantIds(currentRoom[u]) \cup {p})

\* 'room:user-left' / 'user-left': the store's removeParticipant filters the roster; the
\* registry is not touched
RemoveParticipant(u, p) ==
    /\ currentRoom[u] # NoRoom
    /\ p \in ParticipantIds(currentRoom[u]) /\ p # u
    /\ RosterChanged(u, ParticipantIds(currentRoom[u]) \ {p})

\* the user leaves the call: leaveRoom() clears currentRoom and navigates away, the call
\* view unmounts and with it the hook, whose unmount cleanup is empty: its state is
\* dropped, its timer cleared, and no connection is closed
LeaveRoom(u) ==
    /\ currentRoom[u] # NoRoom
    /\ online' = online \ {u}
    /\ currentRoom' = [currentRoom EXCEPT ![u] = NoRoom]
    /\ peers' = [peers EXCEPT ![u] = EmptyMap]
    /\ peersView' = [peersView EXCEPT ![u] = EmptyMap]
    /\ timer' = [timer EXCEPT ![u] = FALSE]
    /\ localStream' = [localStream EXCEPT ![u] = FALSE]
    /\ isConnecting' = [isConnecting EXCEPT ![u] = FALSE]
    /\ connectCalled' = [connectCalled EXCEPT ![u] = FALSE]
    /\ UNCHANGED <<conns, inbox>>

CallNext ==
    \/ \E c \in 1..MaxConns : OfferContinue(c) /\ UNCHANGED sfuVars
    \/ \E c \in 1..MaxConns : AnswerContinue(c) /\ UNCHANGED sfuVars
    \/ \E u \in online : \E m \in RemoteEnvelopes(u) : Receive(u, m) /\ UNCHANGED sfuVars
    \/ \E c \in 1..MaxConns : ConnectionConnected(c) /\ UNCHANGED sfuVars
    \/ \E c \in 1..MaxConns : ConnectionFailed(c) /\ UNCHANGED sfuVars
    \/ \E u \in online, s \in BOOLEAN : SetLocalStream(u, s) /\ UNCHANGED sfuVars
    \/ \E u \in online : Render(u) /\ UNCHANGED sfuVars
    \/ \E u \in online : ConnectTimer(u) /\ UNCHANGED sfuVars
    \/ \E u \in online, p \in Users : AddParticipant(u, p) /\ UNCHANGED sfuVars
    \/ \E u \in online, p \in Users : RemoveParticipant(u, p) /\ UNCHANGED sfuVars
    \/ \E u \in online : LeaveRoom(u) /\ UNCHANGED sfuVars

CallSpec == MeshInit /\ [][CallNext]_vars

\* ------------------------------------- mesh: the call view on an unsteady socket
\* The hook inside VideoCall while the signaling socket comes and goes: what createOffer sends
\* may reach the relay or be dropped by the socket service; the roster stays as it is.
OfflineNext ==
    \/ \E c \in 1..MaxConns : OfferContinue(c) /\ UNCHANGED sfuVars
    \/ \E c \in 1..MaxConns : OfferDropped(c) /\ UNCHANGED sfuVars
    \/ \E c \in 1..MaxConns : AnswerContinue(c) /\ UNCHANGED sfuVars
    \/ \E u \in online : \E m \in RemoteEnvelopes(u) : Receive(u, m) /\ UNCHANGED sfuVars
    \/ \E c \in 1..MaxConns : ConnectionConnected(c) /\ UNCHANGED sfuVars
    \/ \E c \in 1..MaxConns : ConnectionFailed(c) /\ UNCHANGED sfuVars
    \/ \E u \in online : Render(u) /\ UNCHANGED sfuVars
    \/ \E u \in online : ConnectTimer(u) /\ UNCHANGED sfuVars

OfflineSpec == MeshInit /\ [][OfflineNext]_vars

\* =================================================================== SFU session
\* no hook is mounted
MeshIdle ==
    /\ online = {}
    /\ currentRoom = [u \in Clients |-> NoRoom]
    /\ peers = [u \in Clients |-> EmptyMap]
    /\ peersView = [u \in Clients |-> EmptyMap]
    /\ timer = [u \in Clients |-> FALSE]
    /\ localStream = [u \in Clients |-> FALSE]
    /\ isConnecting = [u \in Clients |-> FALSE]
    /\ connectCalled = [u \in Clients |-> FALSE]
    /\ conns = <<>>
    /\ inbox = [u \in Clients |-> <<>>]

SfuInit ==
    /\ MeshIdle
    /\ socket \in BOOLEAN
    /\ SfuFresh

\* ------------------------------------------------------------ SFU: actions

\* initialize(): reports 'connecting', checks that there is a socket, logs; emits nothing
Initialize ==
    /\ reported' = "connecting"
    /\ UNCHANGED <<socket, deviceLoaded, canProduce, transports, sendTransport, recvTransport,
                   producers, producer, consumers, remoteParticipants, streams, trackEnabled,
                   sfuLocalStream, isConnected, calls, outbox, joined, served>>

\* socket.on('sfu:router-rtp-capabilities'): device.load, then one sfu:join-room;
\* load rejects on a loaded device or on capabilities it cannot use (caught, onError)
RouterRtpCapabilities(ok, cp) ==
    /\ socket
    /\ IF ~deviceLoaded /\ ok
       THEN /\ Len(outbox) < MaxOutbox
            /\ deviceLoaded' = TRUE
            /\ canProduce' = cp
            /\ outbox' = Emit(outbox, Msg("sfu:join-room", "room", FALSE))
       ELSE UNCHANGED <<deviceLoaded, canProduce, outbox>>
    /\ UNCHANGED <<socket, transports, sendTransport, recvTransport, producers, producer,
                   consumers, remoteParticipants, streams, trackEnabled, sfuLocalStream, isConnected,
                   reported, calls, joined, served>>

\* the sfu:create-transport requests the server has not taken yet
PendingCreates ==
    Cardinality({i \in 1..Len(outbox) : outbox[i].event = "sfu:create-transport"})

\* the server can still answer one more sfu:create-transport within the bound
CanCreate == Len(transports) + PendingCreates < MaxTransports

\* new Transport made by device.createSendTransport / createRecvTransport
NewTransport(dir) == [direction |-> dir, ready |-> FALSE, state |-> "new", closed |-> FALSE]

\* socket.on('sfu:transport-created'), the server's answer to sfu:create-transport:
\* the transport is made and stored over whatever the field held; an unloaded device throws
TransportCreated(dir) ==
    /\ outbox # <<>> /\ Head(outbox) = Msg("sfu:create-transport", dir, FALSE)
    /\ outbox' = Tail(outbox)
    /\ IF deviceLoaded
       THEN /\ Len(transports) < MaxTransports
            /\ transports' = Append(transports, NewTransport(dir))
            /\ IF dir = "send"
               THEN sendTransport' = Len(transports) + 1 /\ recvTransport' = recvTransport
               ELSE recvTransport' = Len(transports) + 1 /\ sendTransport' = sendTransport
       ELSE UNCHANGED <<transports, sendTransport, recvTransport>>
    /\ UNCHANGED <<socket, deviceLoaded, canProduce, producers, producer, consumers,
                   remoteParticipants, streams, trackEnabled, sfuLocalStream, isConnected, reported,
                   calls, joined, served>>

\* produce() reaching `this.sendTransport.produce({track})` for a kind, on stream st: a kind
\* the device cannot produce is skipped (on to audio after video); a null or closed
\* transport or an ended track throws out of produce(); else the produce is queued on the
\* transport that is stored at this moment
RECURSIVE BeginProduce(_, _, _)
BeginProduce(st, stopped, kind) ==
    IF kind \notin canProduce
    THEN IF kind = "video" THEN BeginProduce(st, stopped, "audio") ELSE {}
    ELSE IF sendTransport = Null \/ stopped
    THEN {}
    ELSE IF transports[sendTransport].closed
    THEN {}
    ELSE {[stream |-> st, pc |-> kind, stage |-> "start", t |-> sendTransport]}

\* startLocalVideo(): getUserMedia (granted or refused), localStream set, then either the
\* request for a send transport or produce()
StartLocalVideo(granted) ==
    /\ IF ~granted
       THEN UNCHANGED <<streams, trackEnabled, sfuLocalStream, calls, outbox>>
       ELSE /\ Len(streams) < MaxStreams
            /\ streams' = Append(streams, [stopped |-> FALSE])
            /\ trackEnabled' = AllEnabled
            /\ sfuLocalStream' = Len(streams) + 1
            /\ IF sendTransport = Null
               THEN /\ socket => (Len(outbox) < MaxOutbox /\ CanCreate)
                    /\ outbox' = Emit(outbox, Msg("sfu:create-transport", "send", FALSE))
                    /\ calls' = calls
               ELSE /\ calls' = calls \cup BeginProduce(Len(streams) + 1, FALSE, "video")
                    /\ outbox' = outbox
    /\ UNCHANGED <<socket, deviceLoaded, canProduce, transports, sendTransport, recvTransport,
                   producers, producer, consumers, remoteParticipants, isConnected,
                   reported, joined, served>>

\* produce() after the produce of one kind resolved: on to the audio track, or done
NextKind(c) ==
    IF c.pc = "video" THEN BeginProduce(c.stream, streams[c.stream].stopped, "audio") ELSE {}

\* the transport starts a queued produce (it runs one at a time): the 'connect' event on
\* first use, else the 'produce' event, emits its request; a transport closed meanwhile
\* rejects it
ProduceStep(c) ==
    /\ c \in calls /\ c.stage = "start"
    /\ IF transports[c.t].closed
       THEN calls' = calls \ {c} /\ outbox' = outbox
       ELSE /\ \A d \in calls : d.stage # "start" => d.t # c.t
            /\ Len(outbox) < MaxOutbox
            /\ IF transports[c.t].ready
               THEN /\ calls' = (calls \ {c}) \cup {[c EXCEPT !.stage = "producing"]}
                    /\ outbox' = Emit(outbox, Msg("sfu:produce", c.pc, FALSE))
               ELSE /\ calls' = (calls \ {c}) \cup {[c EXCEPT !.stage = "connecting"]}
                    /\ outbox' = Emit(outbox, Msg("sfu:connect-transport", "", FALSE))
    /\ UNCHANGED <<socket, deviceLoaded, canProduce, transports, sendTransport, recvTransport,
                   producers, producer, consumers, remoteParticipants, streams, trackEnabled,
                   sfuLocalStream, isConnected, reported, joined, served>>

\* the 'produce' events of the calls W, each emitting sfu:produce for its kind
RECURSIVE EmitProduce(_, _)
EmitProduce(box, W) ==
    IF W = {} THEN box
    ELSE LET c == CHOOSE x \in W : TRUE
         IN EmitProduce(Emit(box, Msg("sfu:produce", c.pc, FALSE)), W \ {c})

\* socket.once('sfu:transport-connected') of every 'connect' event that waits: the server's
\* answer to sfu:connect-transport calls them all back, and each produce goes on to its
\* 'produce' event
TransportConnected ==
    /\ outbox # <<>> /\ Head(outbox).event = "sfu:connect-transport"
    /\ LET W == {c \in calls : c.stage = "connecting"} IN
        /\ transports' = [i \in 1..Len(transports) |->
                             IF \E c \in W : c.t = i
                             THEN [transports[i] EXCEPT !.ready = TRUE] ELSE transports[i]]
        /\ calls' = (calls \ W) \cup {[c EXCEPT !.stage = "producing"] : c \in W}
        /\ outbox' = EmitProduce(Tail(outbox), W)
    /\ UNCHANGED <<socket, deviceLoaded, canProduce, sendTransport, recvTransport, producers,
                   producer, consumers, remoteParticipants, streams, trackEnabled, sfuLocalStream,
                   isConnected, reported, joined, served>>

\* new Producer returned by transport.produce({track})
NewProducerObject(c) ==
    [kind |-> c.pc, transport |-> c.t, track |-> "camera", paused |-> FALSE, closed |-> FALSE]

\* the produce calls W resolve: each gets its Producer, the video one is stored in this.producer
RECURSIVE Resolve(_, _, _)
Resolve(ps, cur, W) ==
    IF W = {} THEN [producers |-> ps, producer |-> cur]
    ELSE LET c == CHOOSE x \in W : TRUE
         IN Resolve(Append(ps, NewProducerObject(c)),
                    IF c.pc = "video" THEN Len(ps) + 1 ELSE cur,
                    W \ {c})

\* socket.on('sfu:producer-created'), the server's answer to sfu:produce: the session is
\* connected; the once-listeners of the waiting 'produce' events call back
ProducerCreated ==
    /\ outbox # <<>> /\ Head(outbox).event = "sfu:produce"
    /\ outbox' = Tail(outbox)
    /\ isConnected' = TRUE
    /\ reported' = "connected"
    /\ LET W == {c \in calls : c.stage = "producing"}
           r == Resolve(producers, producer, W) IN
        /\ Len(producers) + Cardinality(W) <= MaxProducers
        /\ producers' = r.producers
        /\ producer' = r.producer
        /\ calls' = (calls \ W) \cup UNION {NextKind(c) : c \in W}
    /\ UNCHANGED <<socket, deviceLoaded, canProduce, transports, sendTransport, recvTransport,
                   consumers, remoteParticipants, streams, trackEnabled, sfuLocalStream, joined, served>>

\* the produce calls that wait for the server: each holds a once-listener for its
\* confirmation and a once-listener for 'error'
Waiting == {c \in calls : c.stage \in {"connecting", "producing"}}

\* the once('error') listeners left by the requests that a confirmation completed: one per
\* transport connected and one per producer made; nothing removes them
StaleErrbacks ==
    Len(producers) + Cardinality({t \in 1..Len(transports) : transports[t].ready})

\* the server emits 'error', the event it uses for every failure: every once('error')
\* listener runs, so every waiting produce rejects (produce() throws, caught and reported);
\* the error answers the request at the head of the outbox, or none of them
ServerError(answers) ==
    /\ socket
    /\ IF answers
       THEN outbox # <<>> /\ outbox' = Tail(outbox)
       ELSE outbox' = outbox
    /\ calls' = calls \ Waiting
    /\ UNCHANGED <<socket, deviceLoaded, canProduce, transports, sendTransport, recvTransport,
                   producers, producer, consumers, remoteParticipants, streams, trackEnabled,
                   sfuLocalStream, isConnected, reported, joined, served>>

\* consume(producerId): without a receive transport it asks for one and returns
consume(box, producerId) ==
    IF recvTransport = Null
    THEN Emit(box, Msg("sfu:create-transport", "recv", FALSE))
    ELSE Emit(box, Msg("sfu:consume", producerId, FALSE))

\* socket.on('sfu:new-producer')
NewProducer(producerId) ==
    /\ socket
    /\ Len(outbox) < MaxOutbox
    /\ recvTransport = Null => CanCreate
    /\ outbox' = consume(outbox, producerId)
    /\ UNCHANGED <<socket, deviceLoaded, canProduce, transports, sendTransport, recvTransport,
                   producers, producer, consumers, remoteParticipants, streams, trackEnabled,
                   sfuLocalStream, isConnected, reported, calls, joined, served>>

\* socket.on('sfu:consumer-created'), the server's answer to sfu:consume, naming a consumer
\* it has just made: a consumer the map holds is attached to its participant (made if
\* missing) and resumed; nothing ever puts a consumer into the map
ConsumerCreated(id, producerPeerId, kind) ==
    /\ outbox # <<>> /\ Head(outbox).event = "sfu:consume"
    /\ id \notin DOMAIN served
    /\ served' = Put(served, id, producerPeerId)
    /\ IF id \in DOMAIN consumers
       THEN /\ remoteParticipants' =
                  Put(remoteParticipants, producerPeerId,
                      IF producerPeerId \in DOMAIN remoteParticipants
                      THEN [remoteParticipants[producerPeerId] EXCEPT !.consumer = id]
                      ELSE [consumer |-> id, kind |-> kind])
            /\ outbox' = Emit(Tail(outbox), Msg("sfu:resume-consumer", id, FALSE))
       ELSE /\ remoteParticipants' = remoteParticipants
            /\ outbox' = Tail(outbox)
    /\ UNCHANGED <<socket, deviceLoaded, canProduce, transports, sendTransport, recvTransport,
                   producers, producer, consumers, streams, trackEnabled, sfuLocalStream, isConnected,
                   reported, calls, joined>>

\* socket.on('sfu:consumer-closed'): the consumer is closed and dropped, and the first
\* participant that holds it is removed
ConsumerClosed(id) ==
    /\ socket
    /\ id \in DOMAIN served
    /\ served' = Del(served, id)
    /\ consumers' = IF id \in DOMAIN consumers THEN Del(consumers, id) ELSE consumers
    /\ LET H == {q \in DOMAIN remoteParticipants : remoteParticipants[q].consumer = id} IN
        remoteParticipants' = IF H = {} THEN remoteParticipants
                              ELSE Del(remoteParticipants, CHOOSE q \in H : TRUE)
    /\ UNCHANGED <<socket, deviceLoaded, canProduce, transports, sendTransport, recvTransport,
                   producers, producer, streams, trackEnabled, sfuLocalStream, isConnected, reported,
                   calls, outbox, joined>>

\* the server takes a message it answers with nothing the client acts on
\* ('sfu:consumer-resumed' and 'sfu:producer-paused' are only logged; a consume of a
\* producer that is gone makes no consumer)
ServerTakes ==
    /\ outbox # <<>>
    /\ Head(outbox).event \in {"sfu:join-room", "sfu:pause-producer", "sfu:resume-consumer",
                              "sfu:consume"}
    /\ outbox' = Tail(outbox)
    /\ joined' = (joined \/ Head(outbox).event = "sfu:join-room")
    /\ UNCHANGED <<socket, deviceLoaded, canProduce, transports, sendTransport, recvTransport,
                   producers, producer, consumers, remoteParticipants, streams, trackEnabled,
                   sfuLocalStream, isConnected, reported, calls, served>>

\* toggleVideo that produces the video track anew when it is enabled instead of resuming
\* the stored producer (fault seeded for C10)
ToggleVideoReproduce(enabled) ==
    /\ sfuLocalStream # Null /\ producer # Null
    /\ socket => Len(outbox) < MaxOutbox
    /\ trackEnabled' = [trackEnabled EXCEPT !.video = enabled]
    /\ IF enabled
       THEN /\ Len(producers) < MaxProducers
            /\ producers' = Append(producers, [producers[producer] EXCEPT !.paused = FALSE])
            /\ producer' = Len(producers) + 1
       ELSE /\ producers' = [producers EXCEPT ![producer].paused = TRUE]
            /\ producer' = producer
    /\ outbox' = Emit(outbox, Msg("sfu:pause-producer", "", ~enabled))
    /\ UNCHANGED <<socket, deviceLoaded, canProduce, transports, sendTransport, recvTransport,
                   consumers, remoteParticipants, streams, sfuLocalStream, isConnected,
                   reported, calls, joined, served>>

\* toggleVideo(enabled): the local video track is switched; the stored producer, if it is
\* the video one, is resumed or paused (a closed producer ignores both) and the server told
ToggleVideo(enabled) ==
    /\ IF sfuLocalStream = Null
       THEN UNCHANGED <<trackEnabled, producers, outbox>>
       ELSE /\ trackEnabled' = [trackEnabled EXCEPT !.video = enabled]
            /\ IF producer # Null /\ producers[producer].kind = "video"
               THEN /\ socket => Len(outbox) < MaxOutbox
                    /\ producers' = [producers EXCEPT ![producer].paused =
                                        IF producers[producer].closed THEN @ ELSE ~enabled]
                    /\ outbox' = Emit(outbox, Msg("sfu:pause-producer", "", ~enabled))
               ELSE UNCHANGED <<producers, outbox>>
    /\ UNCHANGED <<socket, deviceLoaded, canProduce, transports, sendTransport, recvTransport,
                   producer, consumers, remoteParticipants, streams, sfuLocalStream,
                   isConnected, reported, calls, joined, served>>

\* toggleAudio(enabled): the local audio track is switched and the server told; no producer
\* is paused or resumed
ToggleAudio(enabled) ==
    /\ IF sfuLocalStream = Null
       THEN UNCHANGED <<trackEnabled, outbox>>
       ELSE /\ socket => Len(outbox) < MaxOutbox
            /\ trackEnabled' = [trackEnabled EXCEPT !.audio = enabled]
            /\ outbox' = Emit(outbox, Msg("sfu:pause-producer", "", ~enabled))
    /\ UNCHANGED <<socket, deviceLoaded, canProduce, transports, sendTransport, recvTransport,
                   producers, producer, consumers, remoteParticipants, streams,
                   sfuLocalStream, isConnected, reported, calls, joined, served>>

\* producer.replaceTrack({track}); it throws on a closed producer
replaceTrack(ps, p, track) ==
    IF ps[p].closed THEN ps ELSE [ps EXCEPT ![p].track = track]

\* startScreenShare(): getDisplayMedia (granted or refused), then the stored producer's
\* track becomes the screen track
StartScreenShare(granted) ==
    /\ producers' = IF granted /\ producer # Null /\ sendTransport # Null
                    THEN replaceTrack(producers, producer, "screen")
                    ELSE producers
    /\ UNCHANGED <<socket, deviceLoaded, canProduce, transports, sendTransport, recvTransport,
                   producer, consumers, remoteParticipants, streams, trackEnabled, sfuLocalStream,
                   isConnected, reported, calls, outbox, joined, served>>

\* stopScreenShare(): the stored producer's track becomes the camera track again
StopScreenShare ==
    /\ producers' = IF sfuLocalStream # Null /\ producer # Null
                    THEN replaceTrack(producers, producer, "camera")
                    ELSE producers
    /\ UNCHANGED <<socket, deviceLoaded, canProduce, transports, sendTransport, recvTransport,
                   producer, consumers, remoteParticipants, streams, trackEnabled, sfuLocalStream,
                   isConnected, reported, calls, outbox, joined, served>>

\* transport.on('connectionstatechange'): 'connected' is reported; 'failed' (which stands
\* for 'disconnected' too: the listener treats them alike) is reported as disconnected and
\* clears isConnected
TransportStateChange(t, state) ==
    /\ t \in 1..Len(transports)
    /\ ~transports[t].closed /\ transports[t].ready /\ transports[t].state # state
    /\ transports' = [transports EXCEPT ![t].state = state]
    /\ reported' = IF state = "connected" THEN "connected" ELSE "disconnected"
    /\ isConnected' = IF state = "connected" THEN isConnected ELSE FALSE
    /\ UNCHANGED <<socket, deviceLoaded, canProduce, sendTransport, recvTransport, producers,
                   producer, consumers, remoteParticipants, streams, trackEnabled, sfuLocalStream, calls,
                   outbox, joined, served>>

\* disconnect(): consumers, the stored producer and the stored transports are closed (a
\* closing transport closes its producers and rejects the produces queued on it), the
\* local tracks are stopped, every field is cleared
Disconnect ==
    /\ LET held == {sendTransport, recvTransport} \ {Null} IN
        /\ transports' = [i \in 1..Len(transports) |->
                             IF i \in held THEN [transports[i] EXCEPT !.closed = TRUE]
                             ELSE transports[i]]
        /\ producers' = [i \in 1..Len(producers) |->
                            IF i = producer \/ producers[i].transport \in held
                            THEN [producers[i] EXCEPT !.closed = TRUE] ELSE producers[i]]
        /\ calls' = {c \in calls : c.t \notin held}
    /\ consumers' = EmptyMap
    /\ producer' = Null
    /\ sendTransport' = Null
    /\ recvTransport' = Null
    /\ streams' = IF sfuLocalStream = Null THEN streams
                  ELSE [streams EXCEPT ![sfuLocalStream].stopped = TRUE]
    /\ trackEnabled' = AllEnabled
    /\ sfuLocalStream' = Null
    /\ remoteParticipants' = EmptyMap
    /\ isConnected' = FALSE
    /\ reported' = "disconnected"
    /\ UNCHANGED <<socket, deviceLoaded, canProduce, outbox, joined, served>>

\* the whole session, with a server that names one consumer
OneConsumer == {"c1"}

SfuNext ==
    \/ Initialize /\ UNCHANGED meshVars
    \/ \E ok \in BOOLEAN, cp \in RouterKinds : RouterRtpCapabilities(ok, cp) /\ UNCHANGED meshVars
    \/ \E dir \in Directions : TransportCreated(dir) /\ UNCHANGED meshVars
    \/ \E granted \in BOOLEAN : StartLocalVideo(granted) /\ UNCHANGED meshVars
    \/ \E c \in calls : ProduceStep(c) /\ UNCHANGED meshVars
    \/ TransportConnected /\ UNCHANGED meshVars
    \/ ProducerCreated /\ UNCHANGED meshVars
    \/ \E id \in ProducerIds : NewProducer(id) /\ UNCHANGED meshVars
    \/ \E id \in OneConsumer, q \in PeerIds, k \in Kinds : ConsumerCreated(id, q, k) /\ UNCHANGED meshVars
    \/ \E id \in OneConsumer : ConsumerClosed(id) /\ UNCHANGED meshVars
    \/ ServerTakes /\ UNCHANGED meshVars
    \/ \E en \in BOOLEAN : ToggleVideo(en) /\ UNCHANGED meshVars
    \/ \E en \in BOOLEAN : ToggleAudio(en) /\ UNCHANGED meshVars
    \/ \E granted \in BOOLEAN : StartScreenShare(granted) /\ UNCHANGED meshVars
    \/ StopScreenShare /\ UNCHANGED meshVars
    \/ \E t \in 1..MaxTransports, st \in {"connected", "failed"} :
          TransportStateChange(t, st) /\ UNCHANGED meshVars
    \/ Disconnect /\ UNCHANGED meshVars

SfuSpec == SfuInit /\ [][SfuNext]_vars

\* --------------------------------------------------- SFU: the receiving side
\* The session without local media: the server announces producers, makes and closes
\* consumers, and answers every request it is sent; announcements and closures come when
\* the server likes, and disconnect() when the caller likes.
ConsumeNext ==
    \/ \E ok \in BOOLEAN, cp \in RouterKinds : RouterRtpCapabilities(ok, cp) /\ UNCHANGED meshVars
    \/ \E dir \in Directions : TransportCreated(dir) /\ UNCHANGED meshVars
    \/ \E id \in ProducerIds : NewProducer(id) /\ UNCHANGED meshVars
    \/ \E id \in ConsumerIds, q \in PeerIds, k \in Kinds : ConsumerCreated(id, q, k) /\ UNCHANGED meshVars
    \/ \E id \in ConsumerIds : ConsumerClosed(id) /\ UNCHANGED meshVars
    \/ ServerTakes /\ UNCHANGED meshVars
    \/ Disconnect /\ UNCHANGED meshVars

\* the server answers what it is sent
ConsumeFairness ==
    /\ \A dir \in Directions : WF_vars(TransportCreated(dir) /\ UNCHANGED meshVars)
    /\ WF_vars((\E id \in ConsumerIds, q \in PeerIds, k \in Kinds : ConsumerCreated(id, q, k))
                  /\ UNCHANGED meshVars)
    /\ WF_vars(ServerTakes /\ UNCHANGED meshVars)

ConsumeSpec == SfuInit /\ [][ConsumeNext]_vars /\ ConsumeFairness

\* ----------------------------------------------------- SFU: the sending side
\* The session that sends local media: the caller starts the camera when it likes, the
\* server answers every request it is sent and the transport runs every produce queued on it.
ProduceNext ==
    \/ \E ok \in BOOLEAN, cp \in RouterKinds : RouterRtpCapabilities(ok, cp) /\ UNCHANGED meshVars
    \/ \E dir \in Directions : TransportCreated(dir) /\ UNCHANGED meshVars
    \/ \E granted \in BOOLEAN : StartLocalVideo(granted) /\ UNCHANGED meshVars
    \/ \E c \in calls : ProduceStep(c) /\ UNCHANGED meshVars
    \/ TransportConnected /\ UNCHANGED meshVars
    \/ ProducerCreated /\ UNCHANGED meshVars
    \/ ServerTakes /\ UNCHANGED meshVars
    \/ \E answers \in BOOLEAN : ServerError(answers) /\ UNCHANGED meshVars

\* the server answers what it is sent; a queued produce is run
ProduceFairness ==
    /\ \A dir \in Directions : WF_vars(TransportCreated(dir) /\ UNCHANGED meshVars)
    /\ WF_vars((\E c \in calls : ProduceStep(c)) /\ UNCHANGED meshVars)
    /\ WF_vars(TransportConnected /\ UNCHANGED meshVars)
    /\ WF_vars(ProducerCreated /\ UNCHANGED meshVars)
    /\ WF_vars(ServerTakes /\ UNCHANGED meshVars)

ProduceSpec == SfuInit /\ [][ProduceNext]_vars /\ ProduceFairness

\* ------------------------------------------------------------ mesh: claims

ConnIds == 1..Len(conns)

\* C1 (as claimed). An initiate for a peerId that already has a registry entry is ignored:
\* no step creates a connection by createOffer for a peer whose entry the registry holds.
C1_InitiateIgnoredWhenRegistered ==
    [][\A i \in (Len(conns) + 1)..Len(conns') :
          conns'[i].role = "offer" => conns'[i].peerId \notin DOMAIN peers[conns'[i].owner]]_meshVars

\* C2 (as claimed). connectToAllParticipants is idempotent: once it has run for the roster,
\* a further call creates no connection and leaves the registry as it is.
C2_ConnectIdempotent ==
    [][\A u \in online :
          (connectCalled[u] /\ ConnectToAllParticipants(u))
              => (Len(conns') = Len(conns) /\ peers'[u] = peers[u])]_meshVars

\* C3 (as claimed). An ice-candidate from a peerId that has no registry entry leaves the
\* registry and every connection as they are.
C3_CandidateOfUnregisteredPeer ==
    [][\A u \in online : \A m \in RemoteEnvelopes(u) :
          (m.kind = "ice-candidate" /\ m.from \notin DOMAIN peers[u] /\ Receive(u, m))
              => (peers' = peers /\ conns' = conns)]_meshVars

\* C4. An envelope of any kind whose roomId is not the receiver's current room, or that
\* arrives while the receiver has no room, is discarded: the registry and every connection
\* stay as they are (no connection is made, so no answer follows) and nothing is sent.
WrongRoom(u, m) == currentRoom[u] = NoRoom \/ m.roomId # currentRoom[u].id

C4_WrongRoomDiscarded ==
    [][\A u \in online : \A m \in RemoteEnvelopes(u) :
          (WrongRoom(u, m) /\ Receive(u, m))
              => (peers' = peers /\ conns' = conns /\ inbox' = inbox)]_meshVars

\* a wrong-room answer meets a connection that would take it: the sender is registered with
\* a rendered, open connection still waiting for its answer
C4_Witness ==
    \E m \in RemoteEnvelopes("A") :
        /\ "A" \in online /\ m.kind = "answer" /\ currentRoom["A"] # NoRoom /\ WrongRoom("A", m)
        /\ m.from \in DOMAIN peersView["A"] /\ m.from \in DOMAIN peers["A"]
        /\ peers["A"][m.from].conn = peersView["A"][m.from].conn
        /\ conns[peersView["A"][m.from].conn].sig = "have-local-offer"
        /\ ~conns[peersView["A"][m.from].conn].closed

\* B made an offer of its own (glare)
BInitiated == \E c \in ConnIds : conns[c].owner = "B" /\ conns[c].role = "offer"

\* A's offer was answered by B: each end holds the other's description, both connections are
\* connected, each registry holds exactly the entry of the other client, on its one
\* connection, with a stream iff the other end sent tracks
PairConnected ==
    /\ Len(conns) = 2
    /\ conns[1].owner = "A" /\ conns[1].peerId = "B" /\ conns[1].role = "offer"
    /\ conns[2].owner = "B" /\ conns[2].peerId = "A" /\ conns[2].role = "answer"
    /\ conns[1].remote = 2 /\ conns[2].remote = 1
    /\ conns[1].state = "connected" /\ conns[2].state = "connected"
    /\ peers["A"] = [x \in {"B"} |-> Entry(1, localStream["B"])]
    /\ peers["B"] = [x \in {"A"} |-> Entry(2, localStream["A"])]

\* C5. Two clients over the reliable relay, A initiating: unless B initiates as well, the
\* offer from A is answered by B and eventually both ends are connected, each registry
\* holding exactly one entry, for the other client, with its remote stream if tracks came.
C5_PairEventuallyConnected == <>(BInitiated \/ PairConnected)

C5_Witness == PairConnected /\ ~BInitiated

\* ------------------------------------------------------------- SFU: claims

CreateTransportEmitted ==
    \E i \in 1..Len(outbox) : outbox[i].event = "sfu:create-transport"

\* C6 (as claimed). No transport is requested or made before the device is loaded: a
\* pending sfu:create-transport or an existing transport object implies a loaded device.
C6_NoTransportBeforeLoad ==
    (CreateTransportEmitted \/ transports # <<>>) => deviceLoaded

\* C7 (as claimed). initialize with a socket emits a request to the server, and loading the
\* capabilities emits exactly one sfu:join-room for the configured room.
C7_InitializeRequestsCapabilities ==
    /\ [][(socket /\ reported # "connecting" /\ reported' = "connecting")
             => Len(outbox') = Len(outbox) + 1]_vars
    /\ [][(~deviceLoaded /\ deviceLoaded')
             => outbox' = Append(outbox, Msg("sfu:join-room", "room", FALSE))]_vars

LiveTransports(dir) ==
    {t \in 1..Len(transports) : transports[t].direction = dir /\ ~transports[t].closed}

\* C8 (as claimed). At most one live send transport and at most one live receive transport.
C8_OneTransportPerDirection ==
    \A dir \in Directions : Cardinality(LiveTransports(dir)) <= 1

ActiveProducers(kind) ==
    {p \in 1..Len(producers) : producers[p].kind = kind /\ ~producers[p].closed}

\* C9 (as claimed). At most one active producer per media kind.
C9_OneProducerPerKind ==
    \A kind \in Kinds : Cardinality(ActiveProducers(kind)) <= 1

\* C10. toggleVideo creates and closes no producer; with a local stream and a stored video
\* producer, toggleVideo(enabled) leaves every producer as it is except that the stored one
\* is paused iff not enabled (the same producer is paused, then resumed), and it emits
\* exactly one sfu:pause-producer whose pause flag is the negation of enabled.
C10_ToggleVideoPausesSameProducer ==
    [][\A en \in BOOLEAN :
          ToggleVideo(en) =>
              /\ Len(producers') = Len(producers)
              /\ producer' = producer
              /\ \A p \in 1..Len(producers) :
                    producers'[p].closed = producers[p].closed
              /\ (sfuLocalStream # Null /\ producer # Null) =>
                    /\ producers[producer].kind = "video"
                    /\ producers' = [producers EXCEPT ![producer].paused = ~en]
                    /\ outbox' = Append(outbox, Msg("sfu:pause-producer", "", ~en))]_vars

\* toggleVideo(false) has acted on the stored video producer
C10_Witness ==
    /\ producer # Null /\ sfuLocalStream # Null
    /\ producers[producer].paused /\ ~producers[producer].closed
    /\ ~trackEnabled.video
    /\ outbox # <<>> /\ outbox[Len(outbox)] = Msg("sfu:pause-producer", "", TRUE)

\* the other consumers the server holds for the peer that owns consumer id
OtherConsumersOfOwner(id) == {d \in DOMAIN served \ {id} : served[d] = served[id]}

\* C11 (as claimed). On sfu:consumer-closed for a consumer of a session with a receive
\* transport, the consumer leaves the consumers map, the entry of its owning peer is there
\* afterwards exactly when that peer still has another consumer, and every other entry is
\* left as it was.
C11_ConsumerClosedDetaches ==
    [][\A id \in ConsumerIds :
          (recvTransport # Null /\ ConsumerClosed(id)) =>
              /\ id \notin DOMAIN consumers'
              /\ (served[id] \in DOMAIN remoteParticipants') <=> (OtherConsumersOfOwner(id) # {})
              /\ \A q \in (DOMAIN remoteParticipants) \ {served[id]} :
                    q \in DOMAIN remoteParticipants'
                        /\ remoteParticipants'[q] = remoteParticipants[q]]_vars

\* a consume was deferred: the request for a receive transport waits for the server, which
\* will make the transport
ConsumeDeferred ==
    /\ deviceLoaded /\ recvTransport = Null
    /\ \E i \in 1..Len(outbox) : outbox[i] = Msg("sfu:create-transport", "recv", FALSE)

ConsumeEmitted(producerId) ==
    \E i \in 1..Len(outbox) : outbox[i] = Msg("sfu:consume", producerId, FALSE)

\* C12 (as claimed). A consume deferred for want of a receive transport is retried: once the
\* transport has been made, sfu:consume for the announced producer is eventually emitted
\* (unless disconnect() ends the session).
C12_DeferredConsumeRetried ==
    \A producerId \in ProducerIds :
        ConsumeDeferred ~> (ConsumeEmitted(producerId) \/ reported = "disconnected")

\* C13 (as claimed). disconnect() from any state leaves the maps empty, the fields null,
\* isConnected false and every transport, producer and local stream that was ever made
\* closed or stopped; on a session it has just cleared it changes nothing.
C13_DisconnectReleasesEverything ==
    [][Disconnect =>
          /\ consumers' = EmptyMap /\ remoteParticipants' = EmptyMap
          /\ producer' = Null /\ sendTransport' = Null /\ recvTransport' = Null
          /\ sfuLocalStream' = Null /\ ~isConnected'
          /\ \A t \in 1..Len(transports') : transports'[t].closed
          /\ \A p \in 1..Len(producers') : producers'[p].closed
          /\ \A st \in 1..Len(streams') : streams'[st].stopped
          /\ (sendTransport = Null /\ recvTransport = Null /\ producer = Null
                /\ sfuLocalStream = Null /\ reported = "disconnected")
               => UNCHANGED sfuVars]_vars

\* ------------------------------------------------- mesh: claims, continued

\* C14 (as claimed). When the user leaves, every connection the registry holds is closed,
\* the tracks of its remote stream are stopped, the registry becomes empty, and the
\* connections of negotiations still in flight are closed too.
C14_LeaveClosesEverything ==
    [][\A u \in online :
          LeaveRoom(u) =>
              /\ peers'[u] = EmptyMap
              /\ \A p \in DOMAIN peers[u] :
                    /\ conns'[peers[u][p].conn].closed
                    /\ peers[u][p].stream => conns'[peers[u][p].conn].stopped
              /\ \A c \in ConnIds :
                    (conns[c].owner = u /\ conns[c].pc = "await") => conns'[c].closed]_vars

\* c is the connection the registry holds for its peer
Registered(c) ==
    /\ conns[c].peerId \in DOMAIN peers[conns[c].owner]
    /\ peers[conns[c].owner][conns[c].peerId].conn = c

C16_LeftParticipantDestroyed ==
    [][\A u \in online :
          /\ \A p \in DOMAIN peers[u] :
                RemoveParticipant(u, p) =>
                    (p \notin DOMAIN peers'[u] /\ conns'[peers[u][p].conn].closed)
          /\ (u \in online' /\ currentRoom'[u] # NoRoom) =>
                DOMAIN peers'[u] \subseteq ParticipantIds(currentRoom'[u])]_vars

\* C17 (as claimed). An offer from a peer that has a registered connection reuses it: the
\* handler makes no connection and the entry keeps its connection.
C17_OfferReusesConnection ==
    [][\A u \in online : \A m \in RemoteEnvelopes(u) :
          (m.kind = "offer" /\ m.from \in DOMAIN peers[u] /\ Receive(u, m)) =>
              /\ Len(conns') = Len(conns)
              /\ m.from \in DOMAIN peers'[u]
              /\ peers'[u][m.from].conn = peers[u][m.from].conn]_vars

\* C18 (as claimed). An answer from P changes a connection only if that connection is one
\* made for P and in the offering state, and P's registry entry is in the offering state;
\* with no entry for P, or with P's entry in another state, no connection changes.
C18_AnswerOnlyWhenOffering ==
    [][\A u \in online : \A m \in RemoteEnvelopes(u) :
          (m.kind = "answer" /\ Receive(u, m)) =>
              \A c \in ConnIds :
                  conns'[c] # conns[c] =>
                      /\ conns[c].owner = u /\ conns[c].peerId = m.from
                      /\ conns[c].sig = "have-local-offer"
                      /\ m.from \in DOMAIN peers[u]
                      /\ conns[peers[u][m.from].conn].sig = "have-local-offer"]_vars

\* the latest connection u made for p reported failed
LastConnectionFailed(u, p) ==
    LET made == {c \in ConnIds : conns[c].owner = u /\ conns[c].peerId = p} IN
    /\ made # {}
    /\ conns[CHOOSE c \in made : \A d \in made : d <= c].state = "failed"

\* C19 (as claimed). A failure is not retried by the client itself: with the roster as it
\* was when connectToAllParticipants last ran, a connect timer that fires again makes no
\* connection to a peer whose latest connection failed.
C19_NoAutomaticRetry ==
    [][\A u \in online :
          (connectCalled[u] /\ ConnectTimer(u)) =>
              \A i \in (Len(conns) + 1)..Len(conns') :
                  ~LastConnectionFailed(u, conns'[i].peerId)]_vars

\* u has offered to p and holds no answer yet
OwnOfferPending(u, p) ==
    \E c \in ConnIds :
        /\ conns[c].owner = u /\ conns[c].peerId = p /\ conns[c].role = "offer"
        /\ conns[c].sig = "have-local-offer" /\ ~conns[c].closed

\* the relay holds an offer from f for u
OfferInFlight(f, u) ==
    \E i \in 1..Len(inbox[u]) : inbox[u][i].kind = "offer" /\ inbox[u][i].from = f

\* C20. Glare is not tie-broken: a client that has offered to a peer and then gets that
\* peer's offer neither drops the offer nor gives up its own: it makes an answering
\* connection for the peer as well, and every connection made before stays as it was.
C20_GlareNeitherYields ==
    [][\A u \in Clients :
          (/\ inbox[u] # <<>>
           /\ Head(inbox[u]).kind = "offer"
           /\ OwnOfferPending(u, Head(inbox[u]).from)
           /\ PairDeliver(u)) =>
              /\ Len(conns') = Len(conns) + 1
              /\ conns'[Len(conns')].owner = u
              /\ conns'[Len(conns')].peerId = Head(inbox[u]).from
              /\ conns'[Len(conns')].role = "answer"
              /\ \A c \in ConnIds : conns'[c] = conns[c]]_vars

\* glare: both clients ran connectToAllParticipants before the other's offer reached them, and
\* the offers A -> B and B -> A are in flight at once, each sender still waiting for an answer
C20_Witness ==
    /\ OfferInFlight("A", "B") /\ OfferInFlight("B", "A")
    /\ OwnOfferPending("A", "B") /\ OwnOfferPending("B", "A")

\* C21 (as claimed). The local tracks are shared by all connections: a connection carries
\* the tracks held when it is made, and after setLocalStream(S) every open connection the
\* registry holds carries the tracks of S and no others.
C21_LocalTracksShared ==
    [][/\ \A i \in (Len(conns) + 1)..Len(conns') :
             conns'[i].tracks = localStream[conns'[i].owner]
       /\ \A u \in online : \A s \in BOOLEAN :
             SetLocalStream(u, s) =>
                 \A p \in DOMAIN peers[u] :
                     ~conns[peers[u][p].conn].closed =>
                         conns'[peers[u][p].conn].tracks = s]_vars

\* the camera is on, the device loaded and a send transport stored: everything produce() needs
ReadyToProduce ==
    /\ deviceLoaded
    /\ sfuLocalStream # Null /\ ~streams[sfuLocalStream].stopped
    /\ sendTransport # Null /\ ~transports[sendTransport].closed

\* a live producer of this kind exists
Produced(kind) ==
    \E i \in 1..Len(producers) : producers[i].kind = kind /\ ~producers[i].closed

\* C22 (as claimed). startLocalVideo leads to production: without a send transport it asks
\* for one, with one it asks for none; and once the camera is on and the send transport is
\* there, a producer of every kind the device can produce eventually exists.
C22_StartLeadsToProduction ==
    /\ [][\A granted \in BOOLEAN :
             (StartLocalVideo(granted) /\ granted /\ socket) =>
                 IF sendTransport = Null
                 THEN outbox' = Append(outbox, Msg("sfu:create-transport", "send", FALSE))
                 ELSE outbox' = outbox]_vars
    /\ \A kind \in Kinds : (ReadyToProduce /\ kind \in canProduce) ~> Produced(kind)

\* C23 (as claimed). Every sfu:consumer-created that answers a consume request upserts the
\* participant of producerPeerId (one entry per peer, now holding this consumer; the other
\* entries untouched) and emits exactly one sfu:resume-consumer for the consumer.
C23_ConsumerCreatedUpserts ==
    [][\A id \in ConsumerIds : \A q \in PeerIds : \A k \in Kinds :
          ConsumerCreated(id, q, k) =>
              /\ DOMAIN remoteParticipants' = DOMAIN remoteParticipants \cup {q}
              /\ remoteParticipants'[q].consumer = id
              /\ \A o \in DOMAIN remoteParticipants \ {q} :
                    remoteParticipants'[o] = remoteParticipants[o]
              /\ outbox' = Append(Tail(outbox), Msg("sfu:resume-consumer", id, FALSE))]_vars

\* the request a waiting produce has sent
RequestOf(c) ==
    IF c.stage = "connecting" THEN Msg("sfu:connect-transport", "", FALSE)
    ELSE Msg("sfu:produce", c.pc, FALSE)

\* C24 (as claimed). A connect or produce request is completed once, by the answer to it:
\* a waiting request ends only in a step in which the server answers the request at the
\* head of the outbox, that request is its own, and no other request ends with it; and no
\* callback of a request that was already completed runs again.
C24_CompletedOnceByOwnAnswer ==
    [][/\ \A c \in Waiting :
             c \notin calls' =>
                 /\ outbox # <<>> /\ outbox' # outbox
                 /\ Head(outbox) = RequestOf(c)
                 /\ Waiting \ calls' = {c}
       /\ (\E answers \in BOOLEAN : ServerError(answers)) => StaleErrbacks = 0]_vars

\* a step leaves everything of the peers other than p of client u as it was: their entries
\* (and no new ones), their connections, and the local producer
OthersUntouched(u, p) ==
    /\ \A v \in Clients :
          /\ DOMAIN peers'[v] \subseteq DOMAIN peers[v]
          /\ \A q \in DOMAIN peers[v] :
                (v # u \/ q # p) => (q \in DOMAIN peers'[v] /\ peers'[v][q] = peers[v][q])
    /\ \A d \in ConnIds : (conns[d].owner # u \/ conns[d].peerId # p) => conns'[d] = conns[d]
    /\ producer' = producer /\ producers' = producers

\* the negotiation of connection c raises an error: createOffer / setRemoteDescription
\* rejects on the closed connection, caught inside createOffer / handleOffer
NegotiationError(c) ==
    /\ conns[c].closed
    /\ OfferContinue(c) \/ AnswerContinue(c)

\* C25. Failures are isolated per peer: when a connection of peer P reports failed, when a
\* negotiation step of P raises an error, or when P is removed, the entries, connections and
\* remote streams of every other peer, and the local producer, stay as they were.
C25_FailuresIsolated ==
    [][/\ \A c \in ConnIds :
             (ConnectionFailed(c) \/ NegotiationError(c)) =>
                 OthersUntouched(conns[c].owner, conns[c].peerId)
       /\ \A u \in online : \A p \in DOMAIN peers[u] :
             RemovePeer(u, p) => OthersUntouched(u, p)]_vars

\* a connection of one peer has failed and was closed while another peer of the same client
\* is registered on an open connection
C25_Witness ==
    \E c \in ConnIds : \E d \in ConnIds :
        /\ conns[c].state = "failed" /\ conns[c].closed
        /\ conns[d].owner = conns[c].owner /\ conns[d].peerId # conns[c].peerId
        /\ ~conns[d].closed
        /\ conns[d].peerId \in DOMAIN peers[conns[d].owner]
        /\ peers[conns[d].owner][conns[d].peerId].conn = d

\* C26 (as claimed). No connection is leaked: every connection made is the one its owner's
\* registry holds for its peer, or it is closed.
C26_NoConnectionLeaked ==
    \A c \in ConnIds :
        \/ conns[c].closed
        \/ /\ conns[c].peerId \in DOMAIN peers[conns[c].owner]
           /\ peers[conns[c].owner][conns[c].peerId].conn = c

\* C27 (as claimed). A failed connection takes only itself down: when a connection of peer
\* P reports failed while the registry holds another connection for P, that other connection
\* is not closed and the entry of P stays.
C27_FailedTakesOnlyItself ==
    [][\A c \in ConnIds :
          LET u == conns[c].owner
              p == conns[c].peerId
          IN (/\ p \in DOMAIN peers[u]
              /\ peers[u][p].conn # c
              /\ ConnectionFailed(c)) =>
                 /\ p \in DOMAIN peers'[u]
                 /\ peers'[u][p] = peers[u][p]
                 /\ conns'[peers[u][p].conn].closed = conns[peers[u][p].conn].closed]_vars

OfferNotSent(c) ==
    conns[c].role = "offer" /\ conns[c].pc \in {"error", "dropped"}

\* C29 (as claimed). An entry made by createOffer means that the offer was sent: when
\* createOffer ends without sending (the offer could not be made or set, or the socket was
\* not ready), the registry holds no entry on that connection.
C29_EntryImpliesOfferSent ==
    \A c \in ConnIds :
        OfferNotSent(c) =>
            \A p \in DOMAIN peers[conns[c].owner] : peers[conns[c].owner][p].conn # c

\* disconnect() has completed and nothing has been started since: the session is reported
\* disconnected and holds no transport and no local stream
AfterDisconnect ==
    /\ reported = "disconnected"
    /\ sendTransport = Null /\ recvTransport = Null
    /\ sfuLocalStream = Null

\* a signaling event of the server reaches the client's listeners
ServerEvent ==
    \/ \E dir \in Directions : TransportCreated(dir)
    \/ ProducerCreated
    \/ \E id \in ConsumerIds : \E q \in PeerIds : \E k \in Kinds : ConsumerCreated(id, q, k)
    \/ \E id \in ProducerIds : NewProducer(id)

\* C30 (as claimed). After disconnect() the session stays disconnected: a signaling event
\* delivered afterwards makes no transport, adds no consumer and no participant, does not
\* set isConnected and emits nothing.
C30_StaysDisconnected ==
    [][(AfterDisconnect /\ ServerEvent) =>
          /\ transports' = transports
          /\ consumers' = consumers
          /\ remoteParticipants' = remoteParticipants
          /\ ~isConnected' /\ reported' = "disconnected"
          /\ \E k \in 0..1 : outbox' = SubSeq(outbox, k + 1, Len(outbox))]_vars

====
